---- MODULE Spec2Model ----
(***************************************************************************)
(* A/B test of two reorder-point policies: the per-SKU day-stepped         *)
(* inventory simulation (simulation_engine.py), the stratified             *)
(* control/treatment assignment, the SKU statistics builder, the fixed and *)
(* dynamic reorder-point policies (rop_calculations.py), and the           *)
(* comparison, ROI and recommendation steps (statistical_analysis.py).     *)
(*                                                                         *)
(* Numbers.  The program computes in IEEE doubles.  The model computes on  *)
(* the integer grid: quantities (demand, inventory, reorder point) are     *)
(* integers, a reorder point handed to the simulator is an even integer so *)
(* that 2 x rop and 1.5 x rop are exact, quotients that are reported       *)
(* (fill rate, average inventory) are kept as exact fractions num/den, and *)
(* the float NaN is one distinguished value that every arithmetic operator *)
(* propagates and every comparison answers FALSE on.                       *)
(*                                                                         *)
(* Randomness.  The day-level specification Spec draws every random value  *)
(* nondeterministically.  The run-level specifications thread the state of *)
(* the one global generator (np.random) through every draw.                *)
(***************************************************************************)
EXTENDS Integers, Sequences, FiniteSets, TLC

VARIABLES
    rop,            \* simulate_sku_inventory argument: reorder point
    lead_time,      \* simulate_sku_inventory argument: lead time (days)
    demand_data,    \* simulate_sku_inventory argument: historical quantities
    sim,            \* the loop-local variables of simulate_sku_inventory
    pc,             \* position inside simulate_sku_inventory
    sim_result,     \* the dict simulate_sku_inventory returns
    sku_master,     \* the SKU master table, rows in input order
    seed,           \* config ab_test.random_seed
    rng,            \* the state of the global generator np.random
    control_skus,   \* assign_treatment_groups: the control list
    treatment_skus, \* assign_treatment_groups: the treatment list
    calls,          \* what each call of assign_treatment_groups returned
    daily_demand,   \* the daily demand table: per SKU, its quantities in date order
    purchase_orders,\* the purchase-order table: per SKU, its lead_time_days
    sku_stats,      \* calculate_sku_statistics: one row per SKU with demand rows
    control_results,    \* simulate_group(control_skus, method='fixed'): rows so far
    treatment_results,  \* simulate_group(treatment_skus, method='dynamic'): rows so far
    run_pc,         \* position inside run_simulation
    raised,         \* the exception that ended run_simulation, or "none"
    an_control,     \* control_results.csv as load_results reads it
    an_treatment,   \* treatment_results.csv as load_results reads it
    metrics,        \* what analyze_primary_metrics returned
    roi,            \* what calculate_roi returned
    report,         \* the recommendation generate_summary_report wrote
    an_pc           \* position inside the analysis main()

simVars == <<rop, lead_time, demand_data, sim, pc, sim_result>>
assignVars == <<sku_master, seed, rng, control_skus, treatment_skus, calls>>
runVars == <<daily_demand, purchase_orders, sku_stats, control_results,
             treatment_results, run_pc, raised>>
analysisVars == <<an_control, an_treatment, metrics, roi, report, an_pc>>
vars == <<simVars, assignVars, runVars, analysisVars>>

----------------------------------------------------------------------------
(* Bounds of the model *)

MaxRopHalf == 2     \* reorder points are 0, 2, .., 2 * MaxRopHalf
MaxLead == 2        \* lead times are 1 .. MaxLead
MaxDemand == 3      \* one demand observation is 0 .. MaxDemand
MaxHist == 2        \* a demand history holds 0 .. MaxHist observations
test_days == 3      \* config simulation.test_duration_days
RngMod == 8         \* the generator has RngMod states; random() is u / RngMod
MaxSkus == 3        \* the SKU master holds 0 .. MaxSkus rows
MaxSeed == 1        \* the configured seed is 0 .. MaxSeed
MaxRunSkus == 2     \* run_simulation is given a SKU master of 0 .. MaxRunSkus rows

----------------------------------------------------------------------------
(* Floating point: NaN and the operators that propagate it *)

NaN == -1000000

IsNaN(x) == x = NaN

FAdd(x, y) == IF IsNaN(x) \/ IsNaN(y) THEN NaN ELSE x + y
FSub(x, y) == IF IsNaN(x) \/ IsNaN(y) THEN NaN ELSE x - y
FMul(x, y) == IF IsNaN(x) \/ IsNaN(y) THEN NaN ELSE x * y
\* x * 1.5; exact on the even grid of reorder points
FMulOneAndHalf(x) == IF IsNaN(x) THEN NaN ELSE (x * 3) \div 2

FGe(x, y) == ~IsNaN(x) /\ ~IsNaN(y) /\ x >= y
FLe(x, y) == ~IsNaN(x) /\ ~IsNaN(y) /\ x <= y
FGt(x, y) == ~IsNaN(x) /\ ~IsNaN(y) /\ x > y
FLt(x, y) == ~IsNaN(x) /\ ~IsNaN(y) /\ x < y

RECURSIVE SeqSum(_)
SeqSum(s) == IF s = <<>> THEN 0 ELSE FAdd(Head(s), SeqSum(Tail(s)))

\* an exact fraction num/den (den > 0), or NaN when num is NaN
Frac(n, d) == [num |-> n, den |-> d]

\* np.mean of a list: sum / len, NaN for the empty list
Mean(s) == IF Len(s) = 0 THEN Frac(NaN, 1) ELSE Frac(SeqSum(s), Len(s))

----------------------------------------------------------------------------
(* simulate_sku_inventory: initialisation and the steps of one day *)

\* slip: the order quantity is 2 x rop
SimStartBigOrder(r) ==
    [ inventory        |-> FMul(r, 2),
      on_order         |-> 0,
      stockouts        |-> 0,
      total_demand     |-> 0,
      demand_met       |-> 0,
      inventory_levels |-> <<>>,
      order_qty        |-> FMul(r, 2),
      day              |-> 0,
      daily_demand     |-> 0,
      received         |-> 0 ]

SimStart(r) ==
    [ inventory        |-> FMul(r, 2),
      on_order         |-> 0,
      stockouts        |-> 0,
      total_demand     |-> 0,
      demand_met       |-> 0,
      inventory_levels |-> <<>>,
      order_qty        |-> FMulOneAndHalf(r),
      day              |-> 0,
      daily_demand     |-> 0,
      received         |-> 0 ]   \* bookkeeping: the orders received so far

\* the quantities np.random.choice(demand_data) can return
DemandChoices(data) ==
    IF Len(data) > 0 THEN { data[i] : i \in 1..Len(data) } ELSE {0}

\* slip: total_demand = daily_demand, the running total is overwritten
DrawStepOverwrite(s, d) ==
    [s EXCEPT !.daily_demand = d, !.total_demand = d]

\* daily_demand = <drawn>; total_demand += daily_demand
DrawStep(s, d) ==
    [s EXCEPT !.daily_demand = d, !.total_demand = FAdd(s.total_demand, d)]

\* slip: the shortfall is not clamped, inventory -= daily_demand on every day
FulfilStepNoClamp(s) ==
    IF FGe(s.inventory, s.daily_demand)
    THEN [s EXCEPT !.inventory = FSub(s.inventory, s.daily_demand),
                   !.demand_met = FAdd(s.demand_met, s.daily_demand)]
    ELSE [s EXCEPT !.demand_met = FAdd(s.demand_met, s.inventory),
                   !.inventory = FSub(s.inventory, s.daily_demand),
                   !.stockouts = s.stockouts + 1]

\* slip: on a stockout the units still on the shelf are not counted as sold
FulfilStepDropsPartial(s) ==
    IF FGe(s.inventory, s.daily_demand)
    THEN [s EXCEPT !.inventory = FSub(s.inventory, s.daily_demand),
                   !.demand_met = FAdd(s.demand_met, s.daily_demand)]
    ELSE [s EXCEPT !.inventory = 0,
                   !.stockouts = s.stockouts + 1]

\* slip: inventory > daily_demand, a day that sells the last unit counts as a
\* stockout
FulfilStepStrict(s) ==
    IF FGt(s.inventory, s.daily_demand)
    THEN [s EXCEPT !.inventory = FSub(s.inventory, s.daily_demand),
                   !.demand_met = FAdd(s.demand_met, s.daily_demand)]
    ELSE [s EXCEPT !.demand_met = FAdd(s.demand_met, s.inventory),
                   !.inventory = 0,
                   !.stockouts = s.stockouts + 1]

\* Fulfill demand
FulfilStep(s) ==
    IF FGe(s.inventory, s.daily_demand)
    THEN [s EXCEPT !.inventory = FSub(s.inventory, s.daily_demand),
                   !.demand_met = FAdd(s.demand_met, s.daily_demand)]
    ELSE [s EXCEPT !.demand_met = FAdd(s.demand_met, s.inventory),
                   !.inventory = 0,
                   !.stockouts = s.stockouts + 1]

\* slip: the outstanding-order test is dropped and orders pile up
ReorderStepPileUp(s, r) ==
    IF FLe(s.inventory, r)
    THEN [s EXCEPT !.on_order = FAdd(s.on_order, s.order_qty)]
    ELSE s

\* slip: inventory < rop instead of inventory <= rop
ReorderStepStrict(s, r) ==
    IF FLt(s.inventory, r) /\ s.on_order = 0
    THEN [s EXCEPT !.on_order = s.order_qty]
    ELSE s

\* Check if need to reorder
ReorderStep(s, r) ==
    IF FLe(s.inventory, r) /\ s.on_order = 0
    THEN [s EXCEPT !.on_order = s.order_qty]
    ELSE s

\* the receipt step draws np.random.random() only when an order is outstanding
ReceiptDraws(s) == FGt(s.on_order, 0)

\* slip: the comparison is reversed, np.random.random() > 1.0 / lead_time
ArrivesReversed(u, lt) == IF lt < 0 THEN TRUE ELSE u * lt > RngMod

\* np.random.random() < 1.0 / lead_time, for the draw u / RngMod: never for
\* a negative lead time (1.0 / lead_time < 0), always for the lead time 0.0
\* of a statistics row (numpy: 1.0 / 0.0 = inf, with a warning)
Arrives(u, lt) == IF lt < 0 THEN FALSE ELSE u * lt < RngMod

\* Receive orders
ReceiveStep(s, u, lt) ==
    IF FGt(s.on_order, 0) /\ Arrives(u, lt)
    THEN [s EXCEPT !.inventory = FAdd(s.inventory, s.on_order),
                   !.on_order = 0,
                   !.received = s.received + 1]
    ELSE s

\* slip: the day counter advances by two
RecordStepSkipDay(s) ==
    [s EXCEPT !.inventory_levels = Append(s.inventory_levels, s.inventory),
              !.day = s.day + 2]

\* inventory_levels.append(inventory); next iteration of the day loop
RecordStep(s) ==
    [s EXCEPT !.inventory_levels = Append(s.inventory_levels, s.inventory),
              !.day = s.day + 1]

\* slip: the guard on total_demand is dropped and the division is always made
FillRateUnguarded(s) == Frac(FMul(s.demand_met, 100), s.total_demand)

\* fill_rate = (demand_met / total_demand * 100) if total_demand > 0 else 100
FillRate(s) ==
    IF FGt(s.total_demand, 0)
    THEN Frac(FMul(s.demand_met, 100), s.total_demand)
    ELSE Frac(100, 1)

\* Calculate metrics and return them
Metrics(s) ==
    [ fill_rate      |-> FillRate(s),
      avg_inventory  |-> Mean(s.inventory_levels),
      stockout_count |-> s.stockouts,
      total_demand   |-> s.total_demand,
      demand_met     |-> s.demand_met ]

NoResult == [ fill_rate |-> Frac(0, 1), avg_inventory |-> Frac(0, 1),
              stockout_count |-> 0, total_demand |-> 0, demand_met |-> 0 ]

----------------------------------------------------------------------------
(* The global generator np.random, as a linear congruential generator *)

RngA == 5
RngC == 3

\* np.random.seed(seed)
RngSeed(sd) == sd % RngMod

\* one draw: the generator advances and the new state is the raw output
RngNext(g) == (RngA * g + RngC) % RngMod

\* a raw output scaled to an integer in 0 .. n-1
RandBelow(out, n) == (out * n) \div RngMod

Swap(x, i, j) == [x EXCEPT ![i] = x[j], ![j] = x[i]]

\* np.random.shuffle(x): for i = n .. 2, swap x[i] with x[j], j drawn in 1 .. i
RECURSIVE ShuffleFrom(_, _, _)
ShuffleFrom(x, i, g) ==
    IF i < 2 THEN [seq |-> x, rng |-> g]
    ELSE LET out == RngNext(g)
             j == 1 + RandBelow(out, i)
         IN ShuffleFrom(Swap(x, i, j), i - 1, out)

Shuffle(x, g) == ShuffleFrom(x, Len(x), g)

----------------------------------------------------------------------------
(* assign_treatment_groups *)

AbcClasses == <<"A", "B", "C">>

\* sku_master[sku_master['abc_class'] == abc_class]['sku_id'].values
ClassSkus(master, cls) ==
    LET rows == SelectSeq(master, LAMBDA r : r.abc_class = cls)
    IN [i \in 1..Len(rows) |-> rows[i].sku_id]

\* slip: the split rounds up
SplitAtCeil(n) == (n + 1) \div 2

\* split = n // 2
SplitAt(n) == n \div 2

\* slip: the generator is not seeded, the call continues the global stream
AssignStartRngUnseeded(g, sd) == g

\* np.random.seed(self.config['ab_test']['random_seed'])
AssignStartRng(g, sd) == RngSeed(sd)

\* the body of the loop over the strata
AssignClass(acc, master, cls) ==
    LET sh == Shuffle(ClassSkus(master, cls), acc.rng)
        n == Len(sh.seq)
        split == SplitAt(n)
    IN [ control   |-> acc.control \o SubSeq(sh.seq, 1, split),
         treatment |-> acc.treatment \o SubSeq(sh.seq, split + 1, n),
         rng       |-> sh.rng ]

RECURSIVE AssignClasses(_, _, _)
AssignClasses(acc, master, k) ==
    IF k > Len(AbcClasses) THEN acc
    ELSE AssignClasses(AssignClass(acc, master, AbcClasses[k]), master, k + 1)

\* the whole call, entered with the global generator in state g
AssignTreatmentGroups(master, sd, g) ==
    AssignClasses([control |-> <<>>, treatment |-> <<>>,
                   rng |-> AssignStartRng(g, sd)], master, 1)

\* SKU masters: rows 1 .. n with sku_id = row number and any ABC class
Masters(max) ==
    UNION { { [i \in 1..n |-> [sku_id |-> i, abc_class |-> c[i]]] :
                c \in [1..n -> {"A", "B", "C"}] } : n \in 0..max }

AssignIdle ==
    /\ sku_master = <<>>
    /\ seed = 0
    /\ rng = 0
    /\ control_skus = <<>>
    /\ treatment_skus = <<>>
    /\ calls = <<>>

RunIdle ==
    /\ daily_demand = <<>>
    /\ purchase_orders = <<>>
    /\ sku_stats = <<>>
    /\ control_results = <<>>
    /\ treatment_results = <<>>
    /\ run_pc = "idle"
    /\ raised = "none"

\* the analysis values before the step that computes them
NoMetrics == [computed |-> FALSE]
NoRoi == [computed |-> FALSE]
NoReport == [recommendation |-> "none", bullets |-> {}]

AnalysisIdle ==
    /\ an_control = <<>>
    /\ an_treatment = <<>>
    /\ metrics = NoMetrics
    /\ roi = NoRoi
    /\ report = NoReport
    /\ an_pc = "idle"

SimIdle ==
    /\ rop = 0
    /\ lead_time = 1
    /\ demand_data = <<>>
    /\ sim = SimStart(0)
    /\ pc = "idle"
    /\ sim_result = NoResult

----------------------------------------------------------------------------
(* SpecAssign: two calls of assign_treatment_groups on one SKU master,     *)
(* with other users of np.random drawing before and between the calls      *)

InitAssign ==
    /\ SimIdle
    /\ RunIdle
    /\ AnalysisIdle
    /\ sku_master \in Masters(MaxSkus)
    /\ seed \in 0..MaxSeed
    /\ rng \in 0..(RngMod - 1)
    /\ control_skus = <<>>
    /\ treatment_skus = <<>>
    /\ calls = <<>>

AssignCall ==
    /\ Len(calls) < 2
    /\ LET a == AssignTreatmentGroups(sku_master, seed, rng)
       IN /\ control_skus' = a.control
          /\ treatment_skus' = a.treatment
          /\ rng' = a.rng
          /\ calls' = Append(calls, [control |-> a.control,
                                     treatment |-> a.treatment,
                                     entry_rng |-> rng])
    /\ UNCHANGED <<analysisVars, sku_master, seed, simVars, runVars>>

\* any other code drawing from the global generator
OtherDraw ==
    /\ rng' = RngNext(rng)
    /\ UNCHANGED <<analysisVars, sku_master, seed, control_skus, treatment_skus, calls, simVars, runVars>>

NextAssign == AssignCall \/ OtherDraw

SpecAssign == InitAssign /\ [][NextAssign]_vars

----------------------------------------------------------------------------
(* Spec: one call of simulate_sku_inventory, stepped day by day *)

Rops == { 2 * k : k \in 0..MaxRopHalf }
LeadTimes == 1..MaxLead
Histories == UNION { [1..n -> 0..MaxDemand] : n \in 0..MaxHist }

Init ==
    /\ rop \in Rops
    /\ lead_time \in LeadTimes
    /\ demand_data \in Histories
    /\ sim = SimStart(rop)
    /\ pc = "draw"
    /\ sim_result = NoResult
    /\ AssignIdle
    /\ RunIdle
    /\ AnalysisIdle

DrawDemand ==
    /\ pc = "draw"
    /\ sim.day < test_days
    /\ \E d \in DemandChoices(demand_data) : sim' = DrawStep(sim, d)
    /\ pc' = "fulfil"
    /\ UNCHANGED <<analysisVars, rop, lead_time, demand_data, sim_result, assignVars, runVars>>

Fulfil ==
    /\ pc = "fulfil"
    /\ sim' = FulfilStep(sim)
    /\ pc' = "reorder"
    /\ UNCHANGED <<analysisVars, rop, lead_time, demand_data, sim_result, assignVars, runVars>>

Reorder ==
    /\ pc = "reorder"
    /\ sim' = ReorderStep(sim, rop)
    /\ pc' = "receive"
    /\ UNCHANGED <<analysisVars, rop, lead_time, demand_data, sim_result, assignVars, runVars>>

Receive ==
    /\ pc = "receive"
    /\ \E u \in 0..(RngMod - 1) : sim' = ReceiveStep(sim, u, lead_time)
    /\ pc' = "record"
    /\ UNCHANGED <<analysisVars, rop, lead_time, demand_data, sim_result, assignVars, runVars>>

Record ==
    /\ pc = "record"
    /\ sim' = RecordStep(sim)
    /\ pc' = "draw"
    /\ UNCHANGED <<analysisVars, rop, lead_time, demand_data, sim_result, assignVars, runVars>>

Finish ==
    /\ pc = "draw"
    /\ sim.day >= test_days
    /\ sim_result' = Metrics(sim)
    /\ pc' = "done"
    /\ UNCHANGED <<analysisVars, rop, lead_time, demand_data, sim, assignVars, runVars>>

Next == DrawDemand \/ Fulfil \/ Reorder \/ Receive \/ Record \/ Finish

Spec == Init /\ [][Next]_vars

----------------------------------------------------------------------------
(* Fixed point: statistics and policy values are integers counting 1/FP *)

FP == 1000

\* the largest r with r * r <= n, by bisection on lo <= r < hi
RECURSIVE ISqrtIn(_, _, _)
ISqrtIn(n, lo, hi) ==
    IF hi - lo <= 1 THEN lo
    ELSE LET mid == (lo + hi) \div 2
         IN IF mid * mid <= n THEN ISqrtIn(n, mid, hi) ELSE ISqrtIn(n, lo, mid)

\* 46341 * 46341 exceeds TLC's 32-bit integers
ISqrt(n) == ISqrtIn(n, 0, IF n + 1 < 46341 THEN n + 1 ELSE 46341)

\* np.sqrt(x) of a whole number x, in 1/FP
SqrtFP(x) == IF IsNaN(x) THEN NaN ELSE ISqrt(x * FP * FP)

\* the product of two fixed-point values
FMulFP(x, y) == IF IsNaN(x) \/ IsNaN(y) THEN NaN ELSE (x * y) \div FP

RECURSIVE SumSquares(_)
SumSquares(s) == IF s = <<>> THEN 0 ELSE Head(s) * Head(s) + SumSquares(Tail(s))

\* n * sum of squared deviations from the mean = n * sum(x^2) - (sum x)^2
DevSquares(s) == Len(s) * SumSquares(s) - SeqSum(s) * SeqSum(s)

\* the mean of a sequence, in 1/FP; NaN for the empty sequence
MeanFP(s) == IF Len(s) = 0 THEN NaN ELSE (SeqSum(s) * FP) \div Len(s)

\* pandas Series.std(): the sample standard deviation (ddof = 1), NaN for
\* fewer than two observations
StdSampleFP(s) ==
    IF Len(s) < 2 THEN NaN
    ELSE ISqrt((DevSquares(s) * FP * FP) \div (Len(s) * (Len(s) - 1)))

\* numpy ndarray.std(): the population standard deviation (ddof = 0), NaN
\* for the empty array
StdPopFP(s) ==
    IF Len(s) = 0 THEN NaN
    ELSE ISqrt((DevSquares(s) * FP * FP) \div (Len(s) * Len(s)))

\* x[-k:], the last k elements (all of x when it is shorter)
LastK(s, k) == IF Len(s) <= k THEN s ELSE SubSeq(s, Len(s) - k + 1, Len(s))

----------------------------------------------------------------------------
(* rop_calculations.py: the policy models *)

\* stats.norm.ppf(service_level) at the service level 0.95, in 1/FP
ZScoreFP == 1645

\* calculate_fixed_rop(avg_daily_demand, avg_lead_time, demand_std)
CalculateFixedRop(avg_daily_demand, avg_lead_time, demand_std) ==
    LET safety_stock == FMulFP(FMulFP(ZScoreFP, demand_std), SqrtFP(avg_lead_time))
        reorder_point == FAdd(FMul(avg_daily_demand, avg_lead_time), safety_stock)
    IN [rop |-> reorder_point, safety_stock |-> safety_stock, method |-> "fixed"]

WindowLong == 90
WindowMid == 60
WindowShort == 30
LeadTimeWindow == 10
DefaultForecastLt == 14

\* the weights {'30d': 0.5, '60d': 0.3, '90d': 0.2}, in 1/FP
Weight30 == 500
Weight60 == 300
Weight90 == 200

\* Weighted moving average demand
WmaDemand(recent_demand) ==
    IF Len(recent_demand) >= WindowLong
    THEN (Weight30 * MeanFP(LastK(recent_demand, WindowShort))
          + Weight60 * MeanFP(LastK(recent_demand, WindowMid))
          + Weight90 * MeanFP(LastK(recent_demand, WindowLong))) \div FP
    ELSE MeanFP(recent_demand)

\* Forecasted lead time (recent average), in days; lead times are whole days
\* and the model's inputs keep their mean whole
ForecastedLt(recent_lead_times) ==
    IF Len(recent_lead_times) > 0
    THEN SeqSum(LastK(recent_lead_times, LeadTimeWindow))
            \div Len(LastK(recent_lead_times, LeadTimeWindow))
    ELSE DefaultForecastLt

\* recent_demand[-30:].std() if len(recent_demand) >= 30 else recent_demand.std()
RecentStd(recent_demand) ==
    IF Len(recent_demand) >= WindowShort
    THEN StdPopFP(LastK(recent_demand, WindowShort))
    ELSE StdPopFP(recent_demand)

\* calculate_dynamic_rop(recent_demand, recent_lead_times)
CalculateDynamicRop(recent_demand, recent_lead_times) ==
    LET wma_demand == WmaDemand(recent_demand)
        forecasted_lt == ForecastedLt(recent_lead_times)
        safety_stock == FMulFP(FMulFP(ZScoreFP, RecentStd(recent_demand)),
                               SqrtFP(forecasted_lt))
        reorder_point == FAdd(FMul(wma_demand, forecasted_lt), safety_stock)
    IN [rop |-> reorder_point, safety_stock |-> safety_stock, method |-> "dynamic"]

----------------------------------------------------------------------------
(* calculate_sku_statistics *)

FallbackLeadTime == 14
FallbackLeadTimeStd == 3

\* the SKUs with at least one row in a table
SkusOf(table) == { k \in DOMAIN table : Len(table[k]) > 0 }

\* the row of one SKU: demand aggregates, left-joined lead-time aggregates,
\* the fallbacks filled in where the lead-time aggregate is missing or NaN
StatsRow(demand, pos) ==
    [ avg_daily_demand |-> MeanFP(demand),
      demand_std       |-> StdSampleFP(demand),
      total_demand     |-> SeqSum(demand),
      avg_lead_time    |-> IF Len(pos) = 0 THEN FallbackLeadTime
                           ELSE SeqSum(pos) \div Len(pos),
      lead_time_std    |-> IF IsNaN(StdSampleFP(pos)) THEN FallbackLeadTimeStd * FP
                           ELSE StdSampleFP(pos) ]

\* groupby('sku_id') keeps only the SKUs that have demand rows
CalculateSkuStatistics(demand_tbl, po_tbl) ==
    [ k \in SkusOf(demand_tbl) |->
        StatsRow(demand_tbl[k], IF k \in DOMAIN po_tbl THEN po_tbl[k] ELSE <<>>) ]

----------------------------------------------------------------------------
(* simulate_sku_inventory as one function of the generator state *)

\* a policy value in 1/FP, on the simulator's grid of even whole quantities
ToGrid(x) == IF IsNaN(x) THEN NaN ELSE 2 * (x \div (2 * FP))

\* one iteration of the day loop; the generator advances once for the demand
\* draw (when there is history) and once for the arrival draw (when an order
\* is outstanding)
SimDay(s, data, r, lt, g) ==
    LET g1 == IF Len(data) > 0 THEN RngNext(g) ELSE g
        d == IF Len(data) > 0 THEN data[1 + RandBelow(g1, Len(data))] ELSE 0
        s2 == ReorderStep(FulfilStep(DrawStep(s, d)), r)
        g2 == IF ReceiptDraws(s2) THEN RngNext(g1) ELSE g1
        s3 == IF ReceiptDraws(s2) THEN ReceiveStep(s2, g2, lt) ELSE s2
    IN [sim |-> RecordStep(s3), rng |-> g2]

RECURSIVE SimDays(_, _, _, _, _)
SimDays(s, data, r, lt, g) ==
    IF s.day >= test_days THEN [result |-> Metrics(s), rng |-> g]
    ELSE LET n == SimDay(s, data, r, lt, g)
         IN SimDays(n.sim, data, r, lt, n.rng)

SimulateSkuInventory(data, r, lt, g) == SimDays(SimStart(r), data, r, lt, g)

----------------------------------------------------------------------------
(* simulate_group *)

RecentLtCount == 10

\* the rows of the demand table for one SKU
SkuDemand(demand_tbl, sku) ==
    IF sku \in DOMAIN demand_tbl THEN demand_tbl[sku] ELSE <<>>

\* sku_stats[sku_stats['sku_id'] == sku].iloc[0]: IndexError when no row matches
Lookup(stats, sku) ==
    IF sku \in DOMAIN stats THEN [found |-> TRUE, row |-> stats[sku]]
    ELSE [found |-> FALSE, row |-> StatsRow(<<>>, <<>>)]

\* Calculate ROP
RopResult(method, sku_data, sku_demand) ==
    IF method = "fixed"
    THEN CalculateFixedRop(sku_data.avg_daily_demand, sku_data.avg_lead_time,
                           sku_data.demand_std)
    ELSE CalculateDynamicRop(sku_demand,
                             [i \in 1..RecentLtCount |-> sku_data.avg_lead_time])

\* one iteration of the loop over sku_list
SimulateOne(sku, method, demand_tbl, stats, g) ==
    LET look == Lookup(stats, sku)
        sku_demand == SkuDemand(demand_tbl, sku)
        rop_result == RopResult(method, look.row, sku_demand)
        run == SimulateSkuInventory(sku_demand, ToGrid(rop_result.rop),
                                    look.row.avg_lead_time, g)
    IN IF ~look.found
       THEN [raised |-> "IndexError", rows |-> <<>>, rng |-> g]
       ELSE [raised |-> "none",
             rows |-> << [ sku_id         |-> sku,
                           method         |-> method,
                           rop            |-> rop_result.rop,
                           safety_stock   |-> rop_result.safety_stock,
                           fill_rate      |-> run.result.fill_rate,
                           avg_inventory  |-> run.result.avg_inventory,
                           stockout_count |-> run.result.stockout_count,
                           total_demand   |-> run.result.total_demand,
                           demand_met     |-> run.result.demand_met ] >>,
             rng |-> run.rng]

\* the whole loop over sku_list, from the generator state g
RECURSIVE SimulateGroup(_, _, _, _, _)
SimulateGroup(sku_list, method, demand_tbl, stats, g) ==
    IF sku_list = <<>> THEN [raised |-> "none", rows |-> <<>>, rng |-> g]
    ELSE LET one == SimulateOne(Head(sku_list), method, demand_tbl, stats, g)
             rest == SimulateGroup(Tail(sku_list), method, demand_tbl, stats, one.rng)
         IN IF one.raised # "none" THEN one
            ELSE [raised |-> rest.raised, rows |-> one.rows \o rest.rows,
                  rng |-> rest.rng]

----------------------------------------------------------------------------
(* SpecRun: run_simulation on small input tables *)

\* the demand history of n observations: 1, MaxDemand, 1, ..
RunHistory(n) == [i \in 1..n |-> IF i % 2 = 1 THEN 1 ELSE MaxDemand]
RunHistories == { RunHistory(n) : n \in 0..MaxHist }

\* a SKU has no purchase orders, or one with the longest lead time
RunPoHistories == { <<>>, <<MaxLead>> }

InitRun ==
    /\ SimIdle
    /\ AnalysisIdle
    /\ sku_master \in Masters(MaxRunSkus)
    /\ seed \in 0..MaxSeed
    /\ rng \in 0..(RngMod - 1)
    /\ control_skus = <<>>
    /\ treatment_skus = <<>>
    /\ calls = <<>>
    /\ daily_demand \in [1..Len(sku_master) -> RunHistories]
    /\ purchase_orders \in [1..Len(sku_master) -> RunPoHistories]
    /\ sku_stats = <<>>
    /\ control_results = <<>>
    /\ treatment_results = <<>>
    /\ run_pc = "assign"
    /\ raised = "none"

\* control_skus, treatment_skus = self.assign_treatment_groups(sku_master)
RunAssign ==
    /\ run_pc = "assign"
    /\ LET a == AssignTreatmentGroups(sku_master, seed, rng)
       IN /\ control_skus' = a.control
          /\ treatment_skus' = a.treatment
          /\ rng' = a.rng
    /\ run_pc' = "stats"
    /\ UNCHANGED <<analysisVars, sku_master, seed, calls, simVars, daily_demand, purchase_orders,
                   sku_stats, control_results, treatment_results, raised>>

\* sku_stats = self.calculate_sku_statistics(daily_demand, purchase_orders)
RunStats ==
    /\ run_pc = "stats"
    /\ sku_stats' = CalculateSkuStatistics(daily_demand, purchase_orders)
    /\ run_pc' = "control"
    /\ UNCHANGED <<analysisVars, assignVars, simVars, daily_demand, purchase_orders,
                   control_results, treatment_results, raised>>

\* simulate_group(control_skus, .., method='fixed'): one SKU of the list
RunControlSku ==
    /\ run_pc = "control"
    /\ Len(control_results) < Len(control_skus)
    /\ LET one == SimulateOne(control_skus[Len(control_results) + 1], "fixed",
                              daily_demand, sku_stats, rng)
       IN /\ control_results' = control_results \o one.rows
          /\ rng' = one.rng
          /\ raised' = one.raised
          /\ run_pc' = IF one.raised = "none" THEN "control" ELSE "raised"
    /\ UNCHANGED <<analysisVars, sku_master, seed, control_skus, treatment_skus, calls, simVars,
                   daily_demand, purchase_orders, sku_stats, treatment_results>>

\* the control loop is over; the treatment group is simulated next
RunControlDone ==
    /\ run_pc = "control"
    /\ Len(control_results) = Len(control_skus)
    /\ run_pc' = "treatment"
    /\ UNCHANGED <<analysisVars, assignVars, simVars, daily_demand, purchase_orders, sku_stats,
                   control_results, treatment_results, raised>>

\* simulate_group(treatment_skus, .., method='dynamic'): one SKU of the list
RunTreatmentSku ==
    /\ run_pc = "treatment"
    /\ Len(treatment_results) < Len(treatment_skus)
    /\ LET one == SimulateOne(treatment_skus[Len(treatment_results) + 1], "dynamic",
                              daily_demand, sku_stats, rng)
       IN /\ treatment_results' = treatment_results \o one.rows
          /\ rng' = one.rng
          /\ raised' = one.raised
          /\ run_pc' = IF one.raised = "none" THEN "treatment" ELSE "raised"
    /\ UNCHANGED <<analysisVars, sku_master, seed, control_skus, treatment_skus, calls, simVars,
                   daily_demand, purchase_orders, sku_stats, control_results>>

\* Save results and return
RunDone ==
    /\ run_pc = "treatment"
    /\ Len(treatment_results) = Len(treatment_skus)
    /\ run_pc' = "done"
    /\ UNCHANGED <<analysisVars, assignVars, simVars, daily_demand, purchase_orders, sku_stats,
                   control_results, treatment_results, raised>>

NextRun ==
    RunAssign \/ RunStats \/ RunControlSku \/ RunControlDone \/ RunTreatmentSku
        \/ RunDone

SpecRun == InitRun /\ [][NextRun]_vars

----------------------------------------------------------------------------
(* Properties of simulate_sku_inventory, checked under Spec *)

\* the documented preconditions of the simulator
ValidInputs ==
    /\ FGe(rop, 0)
    /\ lead_time > 0
    /\ \A i \in 1..Len(demand_data) : demand_data[i] >= 0

LastLevel == sim.inventory_levels[Len(sim.inventory_levels)]

\* C1: for non-negative demand, rop >= 0 and lead time > 0, demand_met never
\* exceeds total_demand, and the returned fill_rate lies in [0, 100].
C1_FillRateInRange ==
    ValidInputs =>
        /\ FLe(sim.demand_met, sim.total_demand)
        /\ pc = "done" =>
              /\ FLe(sim_result.demand_met, sim_result.total_demand)
              /\ FGe(sim_result.fill_rate.num, 0)
              /\ FLe(sim_result.fill_rate.num, 100 * sim_result.fill_rate.den)

\* a finished run with a stockout and a partly met demand
C1_Witness ==
    /\ pc = "done"
    /\ sim_result.stockout_count > 0
    /\ sim_result.demand_met > 0
    /\ sim_result.demand_met < sim_result.total_demand

\* C2: at most one order is outstanding: on_order is always 0 or exactly
\* order_qty = 1.5 x rop, and the reorder trigger leaves an outstanding
\* order unchanged.
C2_OneOutstandingOrder ==
    /\ [](ValidInputs =>
            /\ 2 * sim.order_qty = 3 * rop
            /\ sim.on_order = 0 \/ sim.on_order = sim.order_qty)
    /\ [][(pc = "reorder" /\ sim.on_order # 0) => sim'.on_order = sim.on_order]_vars

\* the trigger condition held with an order outstanding since an earlier day
\* (the previous day ended at or below the reorder point) and placed nothing
C2_Witness ==
    /\ pc = "receive"
    /\ rop > 0
    /\ Len(sim.inventory_levels) >= 1
    /\ LastLevel <= rop
    /\ sim.inventory <= rop
    /\ sim.on_order = sim.order_qty

\* C3 as stated: for every rop >= 0, when inventory <= rop after fulfilment
\* and nothing is outstanding, the reorder step places order_qty and the
\* outstanding quantity becomes nonzero.
C3_OrderPlacedAnyRop ==
    [][(pc = "reorder" /\ ValidInputs /\ FLe(sim.inventory, rop) /\ sim.on_order = 0)
          => (pc' = "receive" /\ sim'.on_order = sim.order_qty /\ sim'.on_order # 0)]_vars

\* C3 amended: the same for every rop > 0 (with rop = 0 the order quantity
\* is 0 and the outstanding quantity stays 0).
C3_OrderPlacedPositiveRop ==
    [][(pc = "reorder" /\ ValidInputs /\ rop > 0 /\ FLe(sim.inventory, rop)
           /\ sim.on_order = 0)
          => (pc' = "receive" /\ sim'.on_order = sim.order_qty /\ sim'.on_order # 0
              /\ sim'.inventory = sim.inventory)]_vars

\* an order was placed today: the previous day ended above the reorder point
\* (so nothing was outstanding), today's fulfilment brought inventory to or
\* below it, and the order is outstanding before the receipt step
C3_Witness ==
    /\ pc = "receive"
    /\ rop > 0
    /\ Len(sim.inventory_levels) >= 1
    /\ LastLevel > rop
    /\ sim.inventory <= rop
    /\ sim.on_order = sim.order_qty
    /\ sim.on_order > 0

\* C4: inventory and on_order are never negative; a stockout day leaves
\* inventory at exactly 0.
C4_NonNegativeState ==
    /\ [](ValidInputs => FGe(sim.inventory, 0) /\ FGe(sim.on_order, 0))
    /\ [][(pc = "fulfil" /\ ValidInputs /\ sim'.stockouts # sim.stockouts)
             => sim'.inventory = 0]_vars

\* right after a stockout with a positive reorder point: the shelf is empty
\* and part of the day's demand went unmet
C4_Witness ==
    /\ pc = "reorder"
    /\ rop > 0
    /\ sim.stockouts > 0
    /\ sim.inventory = 0
    /\ sim.daily_demand > 0
    /\ sim.demand_met < sim.total_demand

----------------------------------------------------------------------------
(* Properties of assign_treatment_groups, checked under SpecAssign *)

SeqToSet(s) == { s[i] : i \in 1..Len(s) }
NoDuplicates(s) == Cardinality(SeqToSet(s)) = Len(s)
StratumOf(cls) == SeqToSet(ClassSkus(sku_master, cls))
Abs(x) == IF x < 0 THEN -x ELSE x

\* C5: each stratum of size n contributes exactly floor(n/2) SKUs to control
\* and the other n - floor(n/2) to treatment; per stratum the counts differ
\* by at most 1, in total by at most 3, and every SKU is in exactly one arm.
C5_StratifiedSplit ==
    calls # <<>> =>
        LET ctl == SeqToSet(control_skus)
            trt == SeqToSet(treatment_skus)
        IN /\ NoDuplicates(control_skus) /\ NoDuplicates(treatment_skus)
           /\ \A cls \in SeqToSet(AbcClasses) :
                 LET n == Cardinality(StratumOf(cls))
                     nc == Cardinality(StratumOf(cls) \cap ctl)
                     nt == Cardinality(StratumOf(cls) \cap trt)
                 IN /\ nc = n \div 2
                    /\ nt = n - (n \div 2)
                    /\ Abs(nc - nt) <= 1
                    /\ StratumOf(cls) \cap ctl \cap trt = {}
                    /\ StratumOf(cls) \subseteq (ctl \cup trt)
           /\ Abs(Len(control_skus) - Len(treatment_skus)) <= 3
           /\ Len(control_skus) + Len(treatment_skus) = Len(sku_master)

\* a call on a master with three strata of one SKU each: every stratum
\* differs by one and the arms differ by the full three
C5_Witness ==
    /\ calls # <<>>
    /\ \A cls \in SeqToSet(AbcClasses) : Cardinality(StratumOf(cls)) = 1
    /\ Len(control_skus) = 0
    /\ Len(treatment_skus) = 3

\* C6: every call with the same seed and the same SKU master returns the
\* same control and treatment lists, whatever the generator's state on entry.
C6_Deterministic ==
    \A i, j \in 1..Len(calls) :
        /\ calls[i].control = calls[j].control
        /\ calls[i].treatment = calls[j].treatment

\* two calls entered with the generator in different states, on a master
\* whose shuffle moved a SKU
C6_Witness ==
    /\ Len(calls) = 2
    /\ calls[1].entry_rng # calls[2].entry_rng
    /\ calls[1].entry_rng # RngSeed(seed)
    /\ \E cls \in SeqToSet(AbcClasses) : Cardinality(StratumOf(cls)) >= 3
    /\ control_skus \o treatment_skus # [i \in 1..Len(sku_master) |-> i]

----------------------------------------------------------------------------
(* Properties of run_simulation, checked under SpecRun *)

\* the orderings of a list without duplicates
Orderings(s) ==
    { p \in [1..Len(s) -> SeqToSet(s)] : \A i, j \in 1..Len(s) : i # j => p[i] # p[j] }

\* the generator state in which assign_treatment_groups leaves np.random
RngAfterAssign(master) == AssignTreatmentGroups(master, seed, rng).rng

\* the rows a group yields when simulated from the generator state g
GroupRows(sku_list, method, g) ==
    SeqToSet(SimulateGroup(sku_list, method, daily_demand, sku_stats, g).rows)

\* the generator state after the control group, simulated first
RngAfterControl ==
    SimulateGroup(control_skus, "fixed", daily_demand, sku_stats,
                  RngAfterAssign(sku_master)).rng

AllRows == SeqToSet(control_results) \cup SeqToSet(treatment_results)

\* a run on inputs inside the documented contract that no other defect
\* touches: every SKU has at least two demand observations
CleanInputs ==
    /\ Len(sku_master) > 0
    /\ \A k \in 1..Len(sku_master) : Len(SkuDemand(daily_demand, k)) >= 2

\* C7: the random values the simulation consumes do not depend on the state
\* the assignment shuffles leave behind: when the first SKU is about to be
\* simulated, the generator is in the state it would be in for any other
\* SKU master (any number and sizes of strata) under the same seed.
C7_SimulationStreamIndependent ==
    (run_pc = "control" /\ control_results = <<>> /\ CleanInputs) =>
        \A m \in Masters(MaxRunSkus) : RngAfterAssign(m) = rng

\* C8: the row recorded for a SKU does not depend on the order in which the
\* SKUs of a group are simulated, nor on which arm is simulated first.
C8_OrderIndependent ==
    (run_pc = "done" /\ raised = "none" /\ CleanInputs) =>
        /\ \A p \in Orderings(treatment_skus) :
              GroupRows(p, "dynamic", RngAfterControl) = SeqToSet(treatment_results)
        /\ \A p \in Orderings(control_skus) :
              GroupRows(p, "fixed", RngAfterAssign(sku_master)) = SeqToSet(control_results)
        /\ GroupRows(treatment_skus, "dynamic", RngAfterAssign(sku_master))
              = SeqToSet(treatment_results)

\* C9: a SKU without demand history is simulated without an exception, with
\* demand 0 on every day: total demand 0 and fill rate 100.
C9_NoHistoryCompletes ==
    \A k \in 1..Len(sku_master) :
        SkuDemand(daily_demand, k) = <<>> =>
            /\ raised = "none"
            /\ run_pc = "done" =>
                  \E r \in AllRows :
                      /\ r.sku_id = k
                      /\ r.total_demand = 0
                      /\ r.fill_rate = Frac(100, 1)

\* C10: for a SKU with a single demand observation the dispersion counts as
\* zero: its row has safety stock 0 and defined (non-NaN) reorder point,
\* fill rate, demand met and average inventory.
C10_SingleObservationDefined ==
    \A r \in AllRows :
        Len(SkuDemand(daily_demand, r.sku_id)) = 1 =>
            /\ r.safety_stock = 0
            /\ ~IsNaN(r.rop)
            /\ ~IsNaN(r.fill_rate.num)
            /\ ~IsNaN(r.demand_met)
            /\ ~IsNaN(r.avg_inventory.num)

----------------------------------------------------------------------------
(* SpecUnchecked: simulate_sku_inventory called with any arguments, inside *)
(* or outside its documented preconditions; the method has no validation,  *)
(* so the same steps run                                                   *)

AnyLeadTimes == (-1)..MaxLead
AnyHistories == UNION { [1..n -> (-1)..MaxDemand] : n \in 0..MaxHist }

InitUnchecked ==
    /\ rop \in Rops
    /\ lead_time \in AnyLeadTimes
    /\ demand_data \in AnyHistories
    /\ sim = SimStart(rop)
    /\ pc = "draw"
    /\ sim_result = NoResult
    /\ AssignIdle
    /\ RunIdle
    /\ AnalysisIdle

SpecUnchecked == InitUnchecked /\ [][Next]_vars

\* C11: an input outside the contract (a negative demand quantity, a
\* non-positive lead time) is rejected at the boundary: no simulation day is
\* stepped and no result record is produced for it.
C11_InvalidInputRejected ==
    ~ValidInputs =>
        /\ sim.day = 0
        /\ sim.inventory_levels = <<>>
        /\ pc # "done"
        /\ sim_result = NoResult

----------------------------------------------------------------------------
(* Further properties of simulate_sku_inventory, checked under Spec *)

\* C12: the returned fill_rate is 100 x demand_met / total_demand when the
\* total demand over the horizon is positive, and exactly 100, with no
\* division by zero, when the total demand over the horizon is zero.
C12_FillRateGuarded ==
    pc = "done" =>
        /\ sim_result.fill_rate.den > 0
        /\ sim_result.total_demand > 0 =>
              sim_result.fill_rate.num * sim_result.total_demand
                  = 100 * sim_result.demand_met * sim_result.fill_rate.den
        /\ sim_result.total_demand = 0 =>
              sim_result.fill_rate.num = 100 * sim_result.fill_rate.den

\* a finished run over a history of zero quantities: every day drew 0
C12_Witness ==
    /\ pc = "done"
    /\ demand_data # <<>>
    /\ rop > 0
    /\ sim_result.total_demand = 0
    /\ sim_result.fill_rate = Frac(100, 1)

\* the position of a step inside its day
StepOrder == [draw |-> 0, fulfil |-> 1, reorder |-> 2, receive |-> 3, record |-> 4]

\* the steps a run still has to take: the rest of this day, the days after
\* it, and the return
StepsLeft ==
    IF pc = "done" THEN 0
    ELSE (test_days - sim.day) * 5 - StepOrder[pc] + 1

\* C16: a run always terminates after exactly test_days day-steps taken in
\* increasing day order, each made of demand draw, fulfilment, reorder
\* trigger, receipt and level recording in that order, and records exactly
\* one inventory level per day.
C16_TerminatesAfterTestDays ==
    /\ [](/\ StepsLeft >= 0
          /\ pc # "done" => ENABLED Next
          /\ Len(sim.inventory_levels) = sim.day
          /\ pc = "done" => (sim.day = test_days
                             /\ Len(sim.inventory_levels) = test_days))
    /\ [][/\ StepsLeft' = StepsLeft - 1
          /\ pc = "draw" => (pc' = "fulfil" \/ (pc' = "done" /\ sim.day = test_days))
          /\ pc = "fulfil" => pc' = "reorder"
          /\ pc = "reorder" => pc' = "receive"
          /\ pc = "receive" => pc' = "record"
          /\ pc = "record" => (pc' = "draw" /\ sim'.day = sim.day + 1)
          /\ pc # "record" => sim'.day = sim.day
          /\ pc # "draw" => sim'.total_demand = sim.total_demand
          /\ pc # "fulfil" => sim'.demand_met = sim.demand_met
          /\ pc # "receive" => sim'.received = sim.received]_vars

\* a finished run in which demand was drawn, an order was received and the
\* last recorded level is the final inventory
C16_Witness ==
    /\ pc = "done"
    /\ sim.day = test_days
    /\ Len(sim.inventory_levels) = test_days
    /\ sim.total_demand > 0
    /\ sim.received > 0
    /\ LastLevel = sim.inventory

\* C17: stockout_count = 0 exactly when demand_met = total_demand (fill rate
\* 100): the counter rises by one on exactly the days where inventory is
\* below the day's demand, never exceeds the number of days, and a stockout
\* day leaves demand_met strictly below total_demand.
C17_StockoutsIffUnmetDemand ==
    /\ [](ValidInputs =>
            /\ pc # "fulfil" =>
                  (sim.stockouts = 0 <=> sim.demand_met = sim.total_demand)
            /\ sim.stockouts <= Len(sim.inventory_levels) + 1
            /\ pc = "done" =>
                  /\ sim_result.stockout_count <= test_days
                  /\ sim_result.stockout_count = 0
                        <=> sim_result.demand_met = sim_result.total_demand
                  /\ sim_result.total_demand > 0 =>
                        (sim_result.stockout_count = 0
                            <=> sim_result.fill_rate = Frac(100 * sim_result.total_demand,
                                                            sim_result.total_demand)))
    /\ [][(pc = "fulfil" /\ ValidInputs) =>
            /\ sim.inventory < sim.daily_demand =>
                  (sim'.stockouts = sim.stockouts + 1
                   /\ sim'.demand_met < sim'.total_demand)
            /\ sim.inventory >= sim.daily_demand => sim'.stockouts = sim.stockouts]_vars
    /\ [][pc # "fulfil" => sim'.stockouts = sim.stockouts]_vars

\* a finished run that sold out its shelf exactly on some day, received an
\* order, and met all of a positive demand without a stockout
C17_Witness ==
    /\ pc = "done"
    /\ rop > 0
    /\ sim_result.total_demand > 0
    /\ sim_result.stockout_count = 0
    /\ sim_result.demand_met = sim_result.total_demand
    /\ sim.received > 0
    /\ \E i \in 1..test_days : sim.inventory_levels[i] = 0

C19_StockConserved ==
    /\ [](FAdd(sim.inventory, sim.demand_met)
             = FAdd(FMul(rop, 2), FMul(sim.order_qty, sim.received)))
    /\ [][/\ sim'.order_qty = sim.order_qty
          /\ sim'.inventory - sim.inventory
                = (sim'.received - sim.received) * sim.order_qty
                     - (sim'.demand_met - sim.demand_met)
          /\ sim'.received \in {sim.received, sim.received + 1}]_vars

\* the end of a day after a stockout that sold the rest of the shelf and two
\* received orders
C19_Witness ==
    /\ pc = "draw"
    /\ sim.day >= 2
    /\ rop > 0
    /\ sim.received >= 2
    /\ sim.stockouts >= 1
    /\ sim.demand_met > 0
    /\ sim.demand_met < sim.total_demand
    /\ sim.inventory + sim.demand_met = 2 * rop + sim.order_qty * sim.received

\* every recorded level is at most 2.5 x rop, and inventory does not rise
\* while an order stays outstanding
LevelsBounded ==
    /\ [](ValidInputs =>
            \A i \in 1..Len(sim.inventory_levels) : 2 * sim.inventory_levels[i] <= 5 * rop)
    /\ [][(ValidInputs /\ sim.on_order # 0 /\ sim'.on_order # 0)
             => sim'.inventory <= sim.inventory]_vars

\* C20 as stated, for every rop >= 0: every recorded level is <= 2.5 x rop,
\* and at the end of a day on which no order is outstanding and none arrived
\* (the receipt step leaves nothing outstanding and received nothing),
\* inventory > rop.
C20_BoundedAndRestockedAnyRop ==
    /\ LevelsBounded
    /\ [][(pc = "receive" /\ ValidInputs /\ sim'.on_order = 0
              /\ sim'.received = sim.received)
             => sim'.inventory > rop]_vars

\* C20 amended: the bound on the levels for every rop >= 0, the second part
\* for every rop > 0 (with rop = 0 the order quantity is 0, so a day can end
\* with inventory = 0 = rop, nothing outstanding and nothing arrived).
C20_BoundedAndRestockedPositiveRop ==
    /\ LevelsBounded
    /\ [][(pc = "receive" /\ ValidInputs /\ rop > 0 /\ sim'.on_order = 0
              /\ sim'.received = sim.received)
             => sim'.inventory > rop]_vars

\* a level of exactly 2.5 x rop was recorded on an earlier day; today demand
\* was drawn and met, nothing is outstanding and nothing arrived (inventory
\* fell by exactly the day's demand), and inventory is above the reorder point
C20_Witness ==
    /\ pc = "record"
    /\ rop > 0
    /\ Len(sim.inventory_levels) >= 1
    /\ \E i \in 1..Len(sim.inventory_levels) : 2 * sim.inventory_levels[i] = 5 * rop
    /\ sim.daily_demand > 0
    /\ sim.on_order = 0
    /\ sim.inventory = LastLevel - sim.daily_demand
    /\ sim.inventory > rop

----------------------------------------------------------------------------
(* statistical_analysis.py: numpy doubles that may be infinite or NaN *)

\* a finite value num / den (den > 0), or one of the three special doubles
Finite(n, d) == [kind |-> "num", num |-> n, den |-> d]
PosInf == [kind |-> "inf", num |-> 1, den |-> 0]
NegInf == [kind |-> "-inf", num |-> -1, den |-> 0]
NanValue == [kind |-> "nan", num |-> 0, den |-> 0]

\* n / d on numpy float64: a zero divisor gives inf, -inf or nan (with a
\* RuntimeWarning), never an exception
DivFloat64(n, d) ==
    IF d = 0 THEN (IF n > 0 THEN PosInf ELSE IF n < 0 THEN NegInf ELSE NanValue)
    ELSE IF d > 0 THEN Finite(n, d) ELSE Finite(-n, -d)

\* x > 0 on doubles: False for nan
GtZero(x) == x.kind = "inf" \/ (x.kind = "num" /\ x.num > 0)

\* x < 0 on doubles: False for nan
LtZero(x) == x.kind = "-inf" \/ (x.kind = "num" /\ x.num < 0)

\* one column of a results table
Column(table, field) == [i \in 1..Len(table) |-> table[i][field]]

----------------------------------------------------------------------------
(* compare_means *)

\* the squared two-sided critical values of Student's t at alpha = 0.05 for
\* 1 .. 6 degrees of freedom, in 1/FP: p_value < alpha exactly when t^2
\* exceeds them
TCritSqFP == <<161447, 18513, 10128, 7709, 6608, 5987>>

\* above every entry of TCritSqFP
TSquaredCapFP == 200000

\* t^2 = num / den in 1/FP, cut off at TSquaredCapFP
TSquaredFP(num, den) ==
    IF num \div den >= TSquaredCapFP \div FP THEN TSquaredCapFP
    ELSE (num \div den) * FP + ((num % den) * FP) \div den

\* stats.ttest_ind(treatment, control) and p_value < self.alpha.  With
\* D = nc * nt * (treatment mean - control mean) and the pooled sum of squares
\* M, t^2 = D^2 * df / M.  A sample of one row has variance nan, so p is nan;
\* M = 0 gives t = +-inf (p = 0) when D # 0 and t = nan when D = 0.
IsSignificant(control, treatment) ==
    LET nc == Len(control)
        nt == Len(treatment)
        df == nc + nt - 2
        D == SeqSum(treatment) * nc - SeqSum(control) * nt
        M == (nc + nt) * (DevSquares(control) * nt + DevSquares(treatment) * nc)
    IN IF nc < 2 \/ nt < 2 THEN FALSE
       ELSE IF M = 0 THEN D # 0
       ELSE TSquaredFP(D * D * df, M) > TCritSqFP[df]

\* pct_change = (difference / control_mean) * 100
PctChange(control, treatment) ==
    DivFloat64(100 * (SeqSum(treatment) * Len(control) - SeqSum(control) * Len(treatment)),
               Len(treatment) * SeqSum(control))

\* the fields of the returned dict that a later step reads (the effect size
\* and the confidence interval are only logged and saved)
CompareMeans(control, treatment, metric_name) ==
    [ metric         |-> metric_name,
      control_mean   |-> DivFloat64(SeqSum(control), Len(control)),
      treatment_mean |-> DivFloat64(SeqSum(treatment), Len(treatment)),
      difference     |-> DivFloat64(SeqSum(treatment) * Len(control)
                                       - SeqSum(control) * Len(treatment),
                                    Len(control) * Len(treatment)),
      pct_change     |-> PctChange(control, treatment),
      is_significant |-> IsSignificant(control, treatment) ]

\* analyze_primary_metrics
AnalyzePrimaryMetrics(control, treatment) ==
    [ computed      |-> TRUE,
      fill_rate     |-> CompareMeans(Column(control, "fill_rate"),
                                     Column(treatment, "fill_rate"), "Fill Rate (%)"),
      avg_inventory |-> CompareMeans(Column(control, "avg_inventory"),
                                     Column(treatment, "avg_inventory"),
                                     "Average Inventory (units)"),
      stockouts     |-> CompareMeans(Column(control, "stockout_count"),
                                     Column(treatment, "stockout_count"),
                                     "Stockout Count") ]

----------------------------------------------------------------------------
(* calculate_roi *)

\* the avg_inventory column of the model's tables counts InventoryUnit units
InventoryUnit == 2400

avg_unit_cost == 25
\* config simulation.carrying_cost_rate, in percent ("25% of inventory value")
carrying_rate_pct == 25
stockout_cost_per_incident == 150
implementation_cost == 50000
annual_maintenance == 15000
MonthsPerYear == 12

\* slip: the guard on the benefit is dropped and the division is always made
PaybackMonthsUnguarded(total_annual_benefit) ==
    DivFloat64(implementation_cost * MonthsPerYear, total_annual_benefit)

\* (implementation_cost / (total_annual_benefit / 12))
\*     if total_annual_benefit > 0 else np.inf
PaybackMonths(total_annual_benefit) ==
    IF total_annual_benefit > 0
    THEN DivFloat64(implementation_cost * MonthsPerYear, total_annual_benefit)
    ELSE PosInf

\* the 3-year NPV at 10%: b / 1.1 + b / 1.21 + b / 1.331 - implementation_cost
Npv3Year(total_annual_benefit) ==
    Finite(3310 * total_annual_benefit - 1331 * implementation_cost, 1331)

CalculateRoi(control, treatment) ==
    LET control_inv_value ==
            SeqSum(Column(control, "avg_inventory")) * InventoryUnit * avg_unit_cost
        treatment_inv_value ==
            SeqSum(Column(treatment, "avg_inventory")) * InventoryUnit * avg_unit_cost
        inventory_savings == control_inv_value - treatment_inv_value
        annual_carrying_savings == (inventory_savings * carrying_rate_pct) \div 100
        stockout_savings ==
            (SeqSum(Column(control, "stockout_count"))
                - SeqSum(Column(treatment, "stockout_count"))) * stockout_cost_per_incident
        total_annual_benefit ==
            annual_carrying_savings + stockout_savings - annual_maintenance
    IN [ computed                |-> TRUE,
         inventory_savings       |-> inventory_savings,
         annual_carrying_savings |-> annual_carrying_savings,
         stockout_savings        |-> stockout_savings,
         total_annual_benefit    |-> total_annual_benefit,
         payback_months          |-> PaybackMonths(total_annual_benefit),
         npv_3year               |-> Npv3Year(total_annual_benefit),
         roi_year1               |-> Finite((total_annual_benefit - implementation_cost) * 100,
                                            implementation_cost) ]

----------------------------------------------------------------------------
(* generate_summary_report: the RECOMMENDATION section *)

\* slip: the sign of the change is not tested
RecommendsDynamicAnySign(m) == m.fill_rate.is_significant

\* metrics['fill_rate']['is_significant'] and metrics['fill_rate']['pct_change'] > 0
RecommendsDynamic(m) ==
    m.fill_rate.is_significant /\ GtZero(m.fill_rate.pct_change)

GenerateSummaryReport(m) ==
    IF RecommendsDynamic(m)
    THEN [ recommendation |-> "IMPLEMENT DYNAMIC REORDER POINTS",
           bullets |-> (IF GtZero(m.fill_rate.pct_change) THEN {"Fill rate"} ELSE {})
                \cup (IF LtZero(m.avg_inventory.pct_change)
                      THEN {"Inventory reduction"} ELSE {})
                \cup (IF LtZero(m.stockouts.pct_change)
                      THEN {"Stockout reduction"} ELSE {}) ]
    ELSE [ recommendation |-> "RESULTS INCONCLUSIVE", bullets |-> {} ]

----------------------------------------------------------------------------
(* SpecAnalysis: main() of statistical_analysis.py on two result tables *)

MaxArmRows == 2     \* a results table holds 1 .. MaxArmRows rows

FillRates == {0, 50, 100}
StockoutCounts == {0, 1}
AvgInventories == {0, 1}

\* the rows a simulation can write: fill rate 100 exactly without stockouts
ResultRows ==
    { r \in [fill_rate : FillRates, avg_inventory : AvgInventories,
             stockout_count : StockoutCounts] :
        (r.fill_rate = 100) <=> (r.stockout_count = 0) }

ResultTables == UNION { [1..n -> ResultRows] : n \in 1..MaxArmRows }

InitAnalysis ==
    /\ SimIdle
    /\ AssignIdle
    /\ RunIdle
    /\ an_control \in ResultTables
    /\ an_treatment \in ResultTables
    /\ metrics = NoMetrics
    /\ roi = NoRoi
    /\ report = NoReport
    /\ an_pc = "metrics"

\* metrics = analyzer.analyze_primary_metrics(control, treatment)
AnalyzeMetrics ==
    /\ an_pc = "metrics"
    /\ metrics' = AnalyzePrimaryMetrics(an_control, an_treatment)
    /\ an_pc' = "roi"
    /\ UNCHANGED <<an_control, an_treatment, roi, report, simVars, assignVars, runVars>>

\* roi = analyzer.calculate_roi(control, treatment)
AnalyzeRoi ==
    /\ an_pc = "roi"
    /\ roi' = CalculateRoi(an_control, an_treatment)
    /\ an_pc' = "report"
    /\ UNCHANGED <<an_control, an_treatment, metrics, report, simVars, assignVars, runVars>>

\* analyzer.generate_summary_report(metrics, roi)
AnalyzeReport ==
    /\ an_pc = "report"
    /\ report' = GenerateSummaryReport(metrics)
    /\ an_pc' = "done"
    /\ UNCHANGED <<an_control, an_treatment, metrics, roi, simVars, assignVars, runVars>>

NextAnalysis == AnalyzeMetrics \/ AnalyzeRoi \/ AnalyzeReport

SpecAnalysis == InitAnalysis /\ [][NextAnalysis]_vars

----------------------------------------------------------------------------
(* Properties of the analysis, checked under SpecAnalysis *)

MetricKeys == {"fill_rate", "avg_inventory", "stockouts"}

ColumnOf == [fill_rate |-> "fill_rate", avg_inventory |-> "avg_inventory",
             stockouts |-> "stockout_count"]

\* C13: when the control mean of a metric is zero, its percent change is an
\* explicit undefined value: it is not zero and not plus or minus infinity.
C13_ZeroBaselineFlagged ==
    metrics.computed =>
        \A k \in MetricKeys :
            SeqSum(Column(an_control, ColumnOf[k])) = 0 =>
                /\ metrics[k].pct_change.kind \notin {"inf", "-inf"}
                /\ ~(metrics[k].pct_change.kind = "num" /\ metrics[k].pct_change.num = 0)

\* C14: the report recommends the dynamic policy exactly when the fill-rate
\* comparison is flagged significant and its percent change is > 0; in every
\* other case, whatever the inventory and stockout comparisons show, it
\* reports the result as inconclusive.
C14_RecommendationRule ==
    an_pc = "done" =>
        LET fr == metrics.fill_rate
            positive == fr.pct_change.kind = "inf"
                            \/ (fr.pct_change.kind = "num" /\ fr.pct_change.num > 0)
        IN /\ (fr.is_significant /\ positive)
                 => report.recommendation = "IMPLEMENT DYNAMIC REORDER POINTS"
           /\ ~(fr.is_significant /\ positive)
                 => report.recommendation = "RESULTS INCONCLUSIVE"

\* a report that recommends the dynamic policy on a significant, finite rise
\* of the fill rate although inventory rose as well
C14_Witness ==
    /\ an_pc = "done"
    /\ report.recommendation = "IMPLEMENT DYNAMIC REORDER POINTS"
    /\ metrics.fill_rate.is_significant
    /\ metrics.fill_rate.pct_change.kind = "num"
    /\ metrics.fill_rate.pct_change.num > 0
    /\ metrics.avg_inventory.difference.num > 0

\* C15: the payback period is infinite whenever the total annual benefit is
\* <= 0, and the finite positive number of months
\* implementation_cost / (benefit / 12) = (12 x 50000) / benefit whenever it
\* is > 0.
C15_PaybackGuarded ==
    roi.computed =>
        /\ roi.total_annual_benefit <= 0 => roi.payback_months = PosInf
        /\ roi.total_annual_benefit > 0 =>
              /\ roi.payback_months.kind = "num"
              /\ roi.payback_months.num > 0
              /\ roi.payback_months.num = 12 * 50000
              /\ roi.payback_months.den = roi.total_annual_benefit

\* the carrying saving equals the maintenance cost and the stockouts are
\* equal: the benefit is exactly 0, where an unguarded division would fail
C15_Witness ==
    /\ roi.computed
    /\ roi.total_annual_benefit = 0
    /\ roi.inventory_savings > 0
    /\ roi.payback_months = PosInf

====
